---- MODULE Spec2Model ----
(***************************************************************************)
(* Request instrumentation of actix-otel-example: the HttpMetrics          *)
(* middleware (src/middleware/metrics.rs), the record_trace middleware     *)
(* (src/middleware/tracing.rs), the handlers behind them (src/api/mod.rs)  *)
(* and the order main (src/main.rs) wraps them in.                         *)
(*                                                                         *)
(* Every request is one flow through                                       *)
(*   HttpMetricsMiddleware::call -> record_trace -> routes -> record_trace *)
(*   -> HttpMetricsMiddleware::call -> caller                              *)
(* and flows of different requests interleave at every step.               *)
(***************************************************************************)
EXTENDS Integers, Sequences, FiniteSets, Bags, TLC

\* Number of requests in flight at once.
NumReq == 2
\* Longest Content-Length header value, in bytes, that a request carries.
MaxLen == 2

Req == 1..NumReq

\* Option<T>: None, or Some(x).
None == <<>>
Some(x) == <<x>>
IsSome(o) == o # <<>>
Unwrap(o) == o[1]

\* field::Empty, and a user agent that is not sent.
Empty == "<empty>"
Absent == "<absent>"

(***************************************************************************)
(* Inputs: what a request carries and how the innermost stage behaves.     *)
(***************************************************************************)

\* Bytes a header value is made of; "0xFF" stands for a byte that is not
\* visible ASCII.
Bytes == {"1", "7", "+", "-", "x", "0xFF"}
Digits == {"1", "7"}

HeaderValues(n) == UNION {[1..k -> Bytes] : k \in 0..n}

\* A traceparent header: version, trace id, parent span id. An all-zero trace id
\* is invalid.
ValidTraceparent == [version |-> "00", trace_id |-> 100, parent_id |-> 7]
MalformedTraceparent == [version |-> "00", trace_id |-> 0, parent_id |-> 7]
Traceparents == {None, Some(ValidTraceparent), Some(MalformedTraceparent)}

\* What the stage below record_trace does with the request: "route" hands it to
\* the routes of api::route, "err" resolves its future to an Err, "resp500"
\* answers with a 500 response.
NextBehaviours == {"route", "err", "resp500"}

\* Method, path and body length of a request.
Targets ==
    { [method |-> "GET", path |-> "/", body |-> 0],
      [method |-> "GET", path |-> "/random", body |-> 0],
      [method |-> "POST", path |-> "/echo", body |-> 11],
      [method |-> "POST", path |-> "/metrics", body |-> 0],
      [method |-> "GET", path |-> "/nope", body |-> 0] }

MkRequest(t, cl, tp, ua, nx) ==
    [method |-> t.method, path |-> t.path, body |-> t.body, content_length |-> cl,
     traceparent |-> tp, user_agent |-> ua, next |-> nx]

\* The requests of the one-request specification: every combination.
RichRequests ==
    { MkRequest(t, cl, tp, ua, nx) :
        t \in Targets, cl \in {None} \cup {Some(h) : h \in HeaderValues(MaxLen)},
        tp \in Traceparents, ua \in {Absent, "curl"}, nx \in NextBehaviours }

\* The requests of the concurrent specification.
SmallRequests ==
    { MkRequest(t, cl, tp, Absent, nx) :
        t \in {[method |-> "GET", path |-> "/", body |-> 0]}, cl \in {None},
        tp \in Traceparents, nx \in {"route", "err"} }

NoRequest == MkRequest([method |-> "GET", path |-> "/", body |-> 0], None, None, Absent, "route")

(***************************************************************************)
(* Pure helpers.                                                           *)
(***************************************************************************)

KeyValue(k, v) == <<k, v>>

\* The SDK keys a measurement by the set of the slice's key-values.
AttributeSet(attributes) == {attributes[i] : i \in DOMAIN attributes}

HTTP_SERVER_DURATION == "http.server.duration"
HTTP_SERVER_ACTIVE_REQUESTS == "http.server.active_requests"
HTTP_SERVER_REQUEST_SIZE == "http.server.request.size"
HTTP_SERVER_RESPONSE_SIZE == "http.server.response.size"

HTTP_REQUEST_METHOD == "http.request.method"
URL_SCHEME == "url.scheme"
HTTP_ROUTE == "http.route"
HTTP_RESPONSE_STATUS_CODE == "http.response.status_code"

\* The resources api::route registers.
Routes == {"/", "/echo", "/metrics", "/random"}

\* req.match_pattern().unwrap_or_default()
MatchPattern(path) == IF path \in Routes THEN path ELSE ""

\* HeaderValue::to_str: Ok only when every byte is visible ASCII.
ToStrOk(h) == \A i \in DOMAIN h : h[i] # "0xFF"

DigitValue(c) == IF c = "1" THEN 1 ELSE 7

RECURSIVE DecimalValue(_)
DecimalValue(s) ==
    IF s = <<>> THEN 0
    ELSE 10 * DecimalValue(SubSeq(s, 1, Len(s) - 1)) + DigitValue(s[Len(s)])

\* Mutant of ParseU64: the sign of a signed integer is accepted and dropped.
ParseSignedMagnitude(s) ==
    LET digits == IF s # <<>> /\ Head(s) \in {"+", "-"} THEN Tail(s) ELSE s
    IN  IF digits # <<>> /\ \A i \in DOMAIN digits : digits[i] \in Digits
        THEN [ok |-> TRUE, val |-> DecimalValue(digits)]
        ELSE [ok |-> FALSE, val |-> 0]

\* str::parse::<u64>: an optional leading "+", then one or more digits; a "-" is
\* no digit of an unsigned integer. (A value of at most MaxLen digits cannot
\* overflow 64 bits.)
ParseU64(s) ==
    LET digits == IF s # <<>> /\ Head(s) = "+" THEN Tail(s) ELSE s
    IN  IF digits # <<>> /\ \A i \in DOMAIN digits : digits[i] \in Digits
        THEN [ok |-> TRUE, val |-> DecimalValue(digits)]
        ELSE [ok |-> FALSE, val |-> 0]

\* headers().get(CONTENT_LENGTH).and_then(to_str.ok().and_then(parse.ok())).unwrap_or(0)
RequestSize(content_length) ==
    IF ~IsSome(content_length) THEN 0
    ELSE IF ~ToStrOk(Unwrap(content_length)) THEN 0
    ELSE IF ParseU64(Unwrap(content_length)).ok THEN ParseU64(Unwrap(content_length)).val
    ELSE 0

\* match res.body().size() { BodySize::Sized(size) => size, _ => 0 }
ResponseSize(body) == IF body.kind = "Sized" THEN body.size ELSE 0

\* Mutant of IsSuccess: every status below the server errors counts as success.
IsBelowServerError(status) == status >= 200 /\ status < 500

\* StatusCode::is_success
IsSuccess(status) == status >= 200 /\ status < 300

\* The text map propagator global::get_text_map_propagator hands out: main and
\* init_subscriber never install one, so it is the no-op default.
GlobalTextMapPropagator == "noop"

EmptyContext == [trace_id |-> 0, span_id |-> 0]

\* TraceContextPropagator: a traceparent of version 00 with non-zero ids.
ExtractTraceContext(traceparent) ==
    IF IsSome(traceparent) /\ Unwrap(traceparent).version = "00"
       /\ Unwrap(traceparent).trace_id # 0 /\ Unwrap(traceparent).parent_id # 0
    THEN [trace_id |-> Unwrap(traceparent).trace_id,
          span_id |-> Unwrap(traceparent).parent_id]
    ELSE EmptyContext

\* propagator.extract(&HeaderExtractor(req.headers()))
Extract(traceparent) ==
    IF GlobalTextMapPropagator = "tracecontext"
    THEN ExtractTraceContext(traceparent)
    ELSE EmptyContext

URL_PATH == "url.path"
NETWORK_PROTOCOL_VERSION == "network.protocol.version"
CLIENT_ADDRESS == "client.address"
USER_AGENT_ORIGINAL == "user_agent.original"
ERROR_TYPE == "error.type"
HTTP_REQUEST_HEADERS == "http.request.headers"

\* The fields make_span declares on the request span.
SpanFields ==
    {URL_PATH, HTTP_ROUTE, HTTP_REQUEST_METHOD, HTTP_REQUEST_HEADERS,
     HTTP_RESPONSE_STATUS_CODE, NETWORK_PROTOCOL_VERSION, CLIENT_ADDRESS,
     USER_AGENT_ORIGINAL, ERROR_TYPE}

\* field::display(res.status())
StatusDisplay(status) ==
    CASE status = 200 -> "200 OK"
      [] status = 404 -> "404 Not Found"
      [] status = 500 -> "500 Internal Server Error"
      [] OTHER -> "<status>"

(***************************************************************************)
(* State.                                                                  *)
(***************************************************************************)
VARIABLES
    req,            \* the request each flow serves
    pc,             \* where each flow stands
    attributes,     \* HttpMetricsMiddleware::call's attributes Vec
    request_size,   \* HttpMetricsMiddleware::call's request_size
    span,           \* the request span record_trace made, and who holds it
    extensions,     \* the TraceInfo in the request's extensions, if any
    resp,           \* the response the next stage produced, if any
    exported,       \* bag of the spans closed and handed to the exporter
    generated,      \* trace ids the id generator has handed out
    http_server_active_requests,  \* attribute set -> value of the up-down counter
    http_server_request_size,     \* bag of <<value, attribute set>>
    http_server_response_size,    \* bag of <<value, attribute set>>
    http_server_duration,         \* bag of <<value, attribute set>>
    ops_count,      \* the counter the /metrics handler adds to
    log,            \* per request, what its flow did, in program order
    returned        \* per request, what record_trace and call have returned

vars ==
    <<req, pc, attributes, request_size, span, extensions, resp, exported, generated,
      http_server_active_requests, http_server_request_size,
      http_server_response_size, http_server_duration, ops_count, log, returned>>

NoSpan ==
    [state |-> "none", name |-> <<"", "">>, trace_id |-> 0, parent |-> "none",
     fields |-> [k \in SpanFields |-> Empty], status |-> "unset", handles |-> {}]

\* A measurement: an instrument, a value and the attribute set it is keyed by.
Measurement(i, v, a) == [instrument |-> i, value |-> v, attrs |-> AttributeSet(a)]

Event(op) == [op |-> op, value |-> 0, attrs |-> {}]

LogOf(ms) == [i \in DOMAIN ms |-> [op |-> ms[i].instrument, value |-> ms[i].value, attrs |-> ms[i].attrs]]

\* Mutant of AddTo: the value is stored in place of the sum.
AddToOverwriting(f, k, d) == [x \in DOMAIN f \cup {k} |-> IF x = k THEN d ELSE f[x]]

\* UpDownCounter::add on the shared counter.
AddTo(f, k, d) == IF k \in DOMAIN f THEN [f EXCEPT ![k] = @ + d] ELSE f @@ (k :> d)

RECURSIVE Add(_, _)
Add(counter, ms) ==
    IF ms = <<>> THEN counter
    ELSE Add(IF Head(ms).instrument = HTTP_SERVER_ACTIVE_REQUESTS
             THEN AddTo(counter, Head(ms).attrs, Head(ms).value)
             ELSE counter,
             Tail(ms))

\* Histogram::record on the shared histogram called name.
RECURSIVE Record(_, _, _)
Record(histogram, ms, name) ==
    IF ms = <<>> THEN histogram
    ELSE Record(IF Head(ms).instrument = name
                THEN histogram (+) SetToBag({<<Head(ms).value, Head(ms).attrs>>})
                ELSE histogram,
                Tail(ms), name)

(***************************************************************************)
(* HttpMetricsMiddleware::call, before the next stage.                     *)
(***************************************************************************)

\* attributes as it stands when the service is called: method, scheme, route.
StartAttributes(rq) ==
    <<KeyValue(HTTP_REQUEST_METHOD, rq.method), KeyValue(URL_SCHEME, "http"),
      KeyValue(HTTP_ROUTE, MatchPattern(rq.path))>>

\* The measurements made before the service is called, in program order: the
\* add(1) under method and scheme, then the request size under method, scheme
\* and route.
StartMeasurements(rq) ==
    << Measurement(HTTP_SERVER_ACTIVE_REQUESTS, 1, SubSeq(StartAttributes(rq), 1, 2)),
       Measurement(HTTP_SERVER_REQUEST_SIZE, RequestSize(rq.content_length),
                   StartAttributes(rq)) >>

\* Mutant of EndMeasurements: the duration is not recorded.
EndMeasurementsWithoutDuration(attrs, size, res) ==
    LET full == Append(attrs, KeyValue(HTTP_RESPONSE_STATUS_CODE, res.status))
    IN  << Measurement(HTTP_SERVER_ACTIVE_REQUESTS, -1, attrs),
           Measurement(HTTP_SERVER_REQUEST_SIZE, size, full),
           Measurement(HTTP_SERVER_RESPONSE_SIZE, ResponseSize(res.body), full) >>

\* Mutant of EndMeasurements: a body of no known size gets no response-size
\* sample.
EndMeasurementsSkippingUnsized(attrs, size, res) ==
    LET full == Append(attrs, KeyValue(HTTP_RESPONSE_STATUS_CODE, res.status))
    IN  << Measurement(HTTP_SERVER_ACTIVE_REQUESTS, -1, attrs),
           Measurement(HTTP_SERVER_REQUEST_SIZE, size, full) >>
        \o (IF res.body.kind = "Sized"
            THEN << Measurement(HTTP_SERVER_RESPONSE_SIZE, res.body.size, full) >>
            ELSE << >>)
        \o << Measurement(HTTP_SERVER_DURATION, 0, full) >>

\* The measurements made once the service has answered with res, in program
\* order. The elapsed time itself is not modelled: its sample carries 0.
EndMeasurements(attrs, size, res) ==
    LET full == Append(attrs, KeyValue(HTTP_RESPONSE_STATUS_CODE, res.status))
    IN  << Measurement(HTTP_SERVER_ACTIVE_REQUESTS, -1, attrs),
           Measurement(HTTP_SERVER_REQUEST_SIZE, size, full),
           Measurement(HTTP_SERVER_RESPONSE_SIZE, ResponseSize(res.body), full),
           Measurement(HTTP_SERVER_DURATION, 0, full) >>

Measure(r, ms) ==
    /\ http_server_active_requests' = Add(http_server_active_requests, ms)
    /\ http_server_request_size' = Record(http_server_request_size, ms, HTTP_SERVER_REQUEST_SIZE)
    /\ http_server_response_size' = Record(http_server_response_size, ms, HTTP_SERVER_RESPONSE_SIZE)
    /\ http_server_duration' = Record(http_server_duration, ms, HTTP_SERVER_DURATION)
    /\ log' = [log EXCEPT ![r] = @ \o LogOf(ms)]

\* call, lines 121-152: the synchronous part, up to self.service.call(req).
MetricsCall(r) ==
    /\ pc[r] = "received"
    /\ Measure(r, StartMeasurements(req[r]))
    /\ attributes' = [attributes EXCEPT ![r] = StartAttributes(req[r])]
    /\ request_size' = [request_size EXCEPT ![r] = RequestSize(req[r].content_length)]
    /\ pc' = [pc EXCEPT ![r] = "called"]
    /\ UNCHANGED <<req, span, extensions, resp, exported, generated, ops_count, returned>>

(***************************************************************************)
(* The request span and its handles.                                       *)
(***************************************************************************)

\* Mutant of NewTraceId: the generator hands out its last id again.
ReusedTraceId(n) == IF n = 0 THEN 1 ELSE n

\* RandomIdGenerator::new_trace_id: an id no earlier call returned.
NewTraceId(n) == n + 1

\* make_span: a span named "<method> <pattern>" with every field empty, whose
\* parent is the extracted context. The layer gives a span made without a
\* parent a generated trace id; a valid remote parent's trace id replaces it.
MakeSpan(rq, id) ==
    LET cx == Extract(rq.traceparent)
    IN  [state |-> "open",
         name |-> <<rq.method, MatchPattern(rq.path)>>,
         trace_id |-> IF cx.trace_id # 0 THEN cx.trace_id ELSE id,
         parent |-> IF cx.trace_id # 0 THEN "remote" ELSE "none",
         fields |-> [k \in SpanFields |-> Empty],
         status |-> "unset",
         handles |-> {"local"}]

\* Mutant of SpanContextTraceId: the context answers with an id of its own.
SpanContextOwnTraceId(sp) == sp.trace_id + 1

\* span.context().span().span_context().trace_id(): the trace id the layer
\* holds for the span.
SpanContextTraceId(sp) == sp.trace_id

\* Mutant of TraceInfo: every TraceInfo holds a handle of the first request's span.
TraceInfoOfFirst(trace_id, r) == [trace_id |-> trace_id, app_root_span |-> 1]

\* TraceInfo::new(trace_id, span.clone()): a second handle of span r.
TraceInfo(trace_id, r) == [trace_id |-> trace_id, app_root_span |-> r]

\* Mutant of ExtensionsInsert: the TraceInfo is not put into the extensions.
ExtensionsInsertNothing(ext, info) == ext

\* req.extensions_mut().insert(trace_info)
ExtensionsInsert(ext, info) == Some(info)

\* Mutant of DropHandles: the clone in the request's extensions is never let go.
DropHandlesKeepingExtensions(sp, hs) ==
    LET left == sp.handles \ (hs \ {"extensions"})
    IN  [sp EXCEPT !.handles = left,
                   !.state = IF sp.state = "open" /\ left = {} THEN "closed" ELSE @]

\* Dropping the handles hs of a span: the span closes when none is left.
DropHandles(sp, hs) ==
    LET left == sp.handles \ hs
    IN  [sp EXCEPT !.handles = left,
                   !.state = IF sp.state = "open" /\ left = {} THEN "closed" ELSE @]

Closes(before, after) == before.state = "open" /\ after.state = "closed"

\* What the exporter receives when span r closes.
ExportOf(r, sp) ==
    [req |-> r, kind |-> "request", name |-> sp.name, trace_id |-> sp.trace_id,
     parent |-> sp.parent, status |-> sp.status, fields |-> sp.fields]

\* The effect of a span of request r going from before to after.
CloseSpan(r, before, after, bag) ==
    IF Closes(before, after) THEN bag (+) SetToBag({ExportOf(r, after)}) ELSE bag

CloseLog(before, after) ==
    IF Closes(before, after) THEN <<Event("span.close")>> ELSE <<>>

\* record_trace, lines 76-82: make the span, put a TraceInfo with a clone of it
\* into the request's extensions, call the next stage.
TraceStart(r) ==
    /\ pc[r] = "called"
    /\ LET id == NewTraceId(generated)
           sp == MakeSpan(req[r], id)
       IN  /\ generated' = id
           /\ span' = [span EXCEPT ![r] = [sp EXCEPT !.handles = @ \cup {"extensions"}]]
           /\ extensions' = [extensions EXCEPT ![r] =
                    ExtensionsInsert(@, TraceInfo(SpanContextTraceId(sp), r))]
    /\ log' = [log EXCEPT ![r] = @ \o <<Event("span.start"), Event("span.attach"), Event("next.call")>>]
    /\ pc' = [pc EXCEPT ![r] = "dispatched"]
    /\ UNCHANGED <<req, attributes, request_size, resp, exported,
                   http_server_active_requests, http_server_request_size,
                   http_server_response_size, http_server_duration, ops_count, returned>>

(***************************************************************************)
(* The stage below record_trace: the routes of api::route.                 *)
(***************************************************************************)

Response(status, kind, size) == [status |-> status, body |-> [kind |-> kind, size |-> size]]

\* The handler a request is routed to; "default" is the 404 default service.
Handler(rq) ==
    CASE rq.method = "GET" /\ rq.path = "/" -> "hello"
      [] rq.method = "GET" /\ rq.path = "/random" -> "random"
      [] rq.method = "POST" /\ rq.path = "/echo" -> "echo"
      [] rq.method = "POST" /\ rq.path = "/metrics" -> "metrics"
      [] OTHER -> "default"

CallsFoo(h) == h \in {"hello", "random", "echo"}

\* What each handler answers.
HandlerResponse(h, rq) ==
    CASE h = "hello" -> Response(200, "Sized", 12)
      [] h = "random" -> Response(200, "Sized", 14)
      [] h = "echo" -> Response(200, "Sized", rq.body)
      [] h = "metrics" -> Response(200, "None", 0)
      [] OTHER -> Response(404, "None", 0)

\* Mutant of FooSpans: the span made inside foo is kept open.
FooSpansWithoutInner(r, trace_info) ==
    { [req |-> r, kind |-> "foo", name |-> <<"foo", "">>,
       trace_id |-> span[trace_info.app_root_span].trace_id, parent |-> "request",
       status |-> "unset", fields |-> [k \in SpanFields |-> Empty]] }

\* foo: an instrumented function whose span has app_root_span as its parent;
\* inside it a span is made and dropped at once. Both are closed when foo
\* returns, the inner one first.
FooSpans(r, trace_info) ==
    { [req |-> r, kind |-> "inner", name |-> <<"this is inside the foo func", "">>,
       trace_id |-> span[trace_info.app_root_span].trace_id, parent |-> "foo",
       status |-> "unset", fields |-> [k \in SpanFields |-> Empty]],
      [req |-> r, kind |-> "foo", name |-> <<"foo", "">>,
       trace_id |-> span[trace_info.app_root_span].trace_id, parent |-> "request",
       status |-> "unset", fields |-> [k \in SpanFields |-> Empty]] }

\* The next stage takes the request. It resolves to an Err (the request, and the
\* TraceInfo in it, dropped), answers a 500, or routes: a handler that calls foo
\* extracts ReqData<TraceInfo> (a 500 response when there is none) and runs
\* foo; the others answer at once.
NextStage(r) ==
    /\ pc[r] = "dispatched"
    /\ LET h == Handler(req[r])
           gone == DropHandles(span[r], {"extensions"})
       IN  IF req[r].next = "err"
           THEN /\ span' = [span EXCEPT ![r] = gone]
                /\ extensions' = [extensions EXCEPT ![r] = None]
                /\ exported' = CloseSpan(r, span[r], gone, exported)
                /\ log' = [log EXCEPT ![r] = @ \o CloseLog(span[r], gone)]
                /\ pc' = [pc EXCEPT ![r] = "next_err"]
                /\ UNCHANGED <<resp, ops_count>>
           ELSE IF req[r].next = "resp500"
           THEN /\ resp' = [resp EXCEPT ![r] = Some(Response(500, "Sized", 0))]
                /\ pc' = [pc EXCEPT ![r] = "next_ok"]
                /\ UNCHANGED <<span, extensions, exported, log, ops_count>>
           ELSE IF CallsFoo(h) /\ IsSome(extensions[r])
           THEN /\ exported' = exported (+) SetToBag(FooSpans(r, Unwrap(extensions[r])))
                /\ log' = [log EXCEPT ![r] = @ \o <<Event("foo")>>]
                /\ pc' = [pc EXCEPT ![r] = "in_handler"]
                /\ UNCHANGED <<span, extensions, resp, ops_count>>
           ELSE IF CallsFoo(h)
           THEN /\ resp' = [resp EXCEPT ![r] = Some(Response(500, "Sized", 0))]
                /\ pc' = [pc EXCEPT ![r] = "next_ok"]
                /\ UNCHANGED <<span, extensions, exported, log, ops_count>>
           ELSE /\ resp' = [resp EXCEPT ![r] = Some(HandlerResponse(h, req[r]))]
                /\ ops_count' = IF h = "metrics" THEN ops_count + 1 ELSE ops_count
                /\ pc' = [pc EXCEPT ![r] = "next_ok"]
                /\ UNCHANGED <<span, extensions, exported, log>>
    /\ UNCHANGED <<req, attributes, request_size, generated,
                   http_server_active_requests, http_server_request_size,
                   http_server_response_size, http_server_duration, returned>>

\* hello, random and echo answer after foo (random after its sleep).
HandlerReturn(r) ==
    /\ pc[r] = "in_handler"
    /\ resp' = [resp EXCEPT ![r] = Some(HandlerResponse(Handler(req[r]), req[r]))]
    /\ pc' = [pc EXCEPT ![r] = "next_ok"]
    /\ UNCHANGED <<req, attributes, request_size, span, extensions, exported, generated,
                   http_server_active_requests, http_server_request_size,
                   http_server_response_size, http_server_duration, ops_count, log,
                   returned>>

(***************************************************************************)
(* record_trace and HttpMetricsMiddleware::call, after the next stage.     *)
(***************************************************************************)

\* ServiceResponse::new(req, res) and ServiceResponse::into_parts.
ServiceResponseNew(rq, res) == [request |-> rq, response |-> res]
IntoParts(sr) == <<sr.request, sr.response>>

\* Result<ServiceResponse<B>, Error>.
Ok(v) == [ok |-> TRUE, val |-> v, err |-> <<"", 0>>]
Err(e) == [ok |-> FALSE, val |-> ServiceResponseNew(0, Response(0, "None", 0)), err |-> e]

\* What next.call(req).await resolved to for request r.
NextResult(r) ==
    IF pc[r] = "next_ok"
    THEN Ok(ServiceResponseNew(r, Unwrap(resp[r])))
    ELSE Err(<<"next stage error", r>>)

\* Mutant of TraceReturn: an Err is turned into a 500 response.
TraceReturnSwallowing(result) ==
    IF result.ok
    THEN Ok(ServiceResponseNew(IntoParts(result.val)[1], IntoParts(result.val)[2]))
    ELSE Ok(ServiceResponseNew(0, Response(500, "Sized", 0)))

\* record_trace, lines 82-106: `?` hands an Err back as it is; a response is
\* taken apart and put together again.
TraceReturn(result) ==
    IF result.ok
    THEN Ok(ServiceResponseNew(IntoParts(result.val)[1], IntoParts(result.val)[2]))
    ELSE result

\* call, lines 155-179: the same for what the wrapped service returned.
CallReturn(result) ==
    IF result.ok
    THEN Ok(ServiceResponseNew(IntoParts(result.val)[1], IntoParts(result.val)[2]))
    ELSE result

\* record_trace, lines 85-102: the fields written once the response is known.
FinalFields(fields, rq, res) ==
    [k \in SpanFields |->
        CASE k = URL_PATH -> rq.path
          [] k = HTTP_ROUTE -> MatchPattern(rq.path)
          [] k = HTTP_REQUEST_METHOD -> rq.method
          [] k = HTTP_REQUEST_HEADERS -> "<headers>"
          [] k = NETWORK_PROTOCOL_VERSION -> "HTTP/1.1"
          [] k = CLIENT_ADDRESS -> "127.0.0.1"
          [] k = USER_AGENT_ORIGINAL ->
                IF rq.user_agent # Absent THEN rq.user_agent ELSE fields[k]
          [] k = HTTP_RESPONSE_STATUS_CODE -> StatusDisplay(res.status)
          [] k = ERROR_TYPE ->
                IF ~IsSuccess(res.status) THEN StatusDisplay(res.status) ELSE fields[k]
          [] OTHER -> fields[k]]

\* record_trace, lines 82-107, once next.call(req) has resolved: an Err leaves
\* through `?` with nothing written; a response has the final fields written.
\* Either way the local span handle is dropped on return.
TraceFinish(r) ==
    /\ pc[r] \in {"next_ok", "next_err"}
    /\ LET written == IF pc[r] = "next_ok"
                      THEN [span[r] EXCEPT !.fields = FinalFields(@, req[r], Unwrap(resp[r]))]
                      ELSE span[r]
           after == DropHandles(written, {"local"})
       IN  /\ span' = [span EXCEPT ![r] = after]
           /\ exported' = CloseSpan(r, written, after, exported)
           /\ log' = [log EXCEPT ![r] = @ \o (IF pc[r] = "next_ok" THEN <<Event("span.record")>> ELSE <<>>)
                                         \o CloseLog(written, after)]
    /\ returned' = [returned EXCEPT ![r].record_trace = Some(TraceReturn(NextResult(r)))]
    /\ pc' = [pc EXCEPT ![r] = IF pc[r] = "next_ok" THEN "trace_ok" ELSE "trace_err"]
    /\ UNCHANGED <<req, attributes, request_size, extensions, resp, generated,
                   http_server_active_requests, http_server_request_size,
                   http_server_response_size, http_server_duration, ops_count>>

\* call, lines 154-180, once fut has resolved: an Err leaves through `?`; a
\* response is measured and handed on.
MetricsFinish(r) ==
    /\ pc[r] \in {"trace_ok", "trace_err"}
    /\ IF pc[r] = "trace_ok"
       THEN /\ Measure(r, EndMeasurements(attributes[r], request_size[r], Unwrap(resp[r])))
            /\ attributes' = [attributes EXCEPT ![r] =
                    Append(@, KeyValue(HTTP_RESPONSE_STATUS_CODE, Unwrap(resp[r]).status))]
            /\ pc' = [pc EXCEPT ![r] = "delivered"]
       ELSE /\ pc' = [pc EXCEPT ![r] = "failed"]
            /\ UNCHANGED <<attributes, log, http_server_active_requests,
                           http_server_request_size, http_server_response_size,
                           http_server_duration>>
    /\ returned' = [returned EXCEPT ![r].call = Some(CallReturn(Unwrap(returned[r].record_trace)))]
    /\ UNCHANGED <<req, request_size, span, extensions, resp, exported, generated, ops_count>>

\* The caller is done with the response: the HttpRequest in it is dropped and
\* its extensions cleared.
Release(r) ==
    /\ pc[r] = "delivered"
    /\ LET after == DropHandles(span[r], {"extensions"})
       IN  /\ span' = [span EXCEPT ![r] = after]
           /\ exported' = CloseSpan(r, span[r], after, exported)
           /\ log' = [log EXCEPT ![r] = @ \o CloseLog(span[r], after)]
    /\ extensions' = [extensions EXCEPT ![r] = None]
    /\ pc' = [pc EXCEPT ![r] = "released"]
    /\ UNCHANGED <<req, attributes, request_size, resp, generated,
                   http_server_active_requests, http_server_request_size,
                   http_server_response_size, http_server_duration, ops_count, returned>>

\* The connection goes away while the next stage is pending: the middleware
\* futures are dropped where they stand, with the request and the span handles
\* they own.
Cancel(r) ==
    /\ pc[r] \in {"dispatched", "in_handler"}
    /\ LET after == DropHandles(span[r], {"local", "extensions"})
       IN  /\ span' = [span EXCEPT ![r] = after]
           /\ exported' = CloseSpan(r, span[r], after, exported)
           /\ log' = [log EXCEPT ![r] = @ \o CloseLog(span[r], after)]
    /\ extensions' = [extensions EXCEPT ![r] = None]
    /\ pc' = [pc EXCEPT ![r] = "cancelled"]
    /\ UNCHANGED <<req, attributes, request_size, resp, generated,
                   http_server_active_requests, http_server_request_size,
                   http_server_response_size, http_server_duration, ops_count, returned>>

(***************************************************************************)
(* Specifications.                                                         *)
(***************************************************************************)

InitState ==
    /\ attributes = [r \in Req |-> <<>>]
    /\ request_size = [r \in Req |-> 0]
    /\ span = [r \in Req |-> NoSpan]
    /\ extensions = [r \in Req |-> None]
    /\ resp = [r \in Req |-> None]
    /\ exported = EmptyBag
    /\ generated = 0
    /\ http_server_active_requests = <<>>
    /\ http_server_request_size = EmptyBag
    /\ http_server_response_size = EmptyBag
    /\ http_server_duration = EmptyBag
    /\ ops_count = 0
    /\ log = [r \in Req |-> <<>>]
    /\ returned = [r \in Req |-> [record_trace |-> None, call |-> None]]

\* NumReq requests in flight at once.
Init ==
    /\ req \in [Req -> SmallRequests]
    /\ pc = [r \in Req |-> "received"]
    /\ InitState

\* One request, of any shape.
InitOne ==
    /\ \E q \in RichRequests : req = [r \in Req |-> IF r = 1 THEN q ELSE NoRequest]
    /\ pc = [r \in Req |-> IF r = 1 THEN "received" ELSE "unused"]
    /\ InitState

Next ==
    \E r \in Req :
        \/ MetricsCall(r)
        \/ TraceStart(r)
        \/ NextStage(r)
        \/ HandlerReturn(r)
        \/ TraceFinish(r)
        \/ MetricsFinish(r)
        \/ Release(r)
        \/ Cancel(r)

Spec == Init /\ [][Next]_vars

SpecOne == InitOne /\ [][Next]_vars

(***************************************************************************)
(* Properties.                                                             *)
(***************************************************************************)

RECURSIVE SumOver(_, _)
SumOver(f, S) ==
    IF S = {} THEN 0
    ELSE LET x == CHOOSE y \in S : TRUE IN f[x] + SumOver(f, S \ {x})

\* http.server.active_requests, summed over its attribute sets.
GaugeNet == SumOver(http_server_active_requests, DOMAIN http_server_active_requests)

\* How many spans of request r, of the kinds in ks, the exporter has received.
SpansExported(r, ks) ==
    SumOver(exported, {e \in DOMAIN exported : e.req = r /\ e.kind \in ks})

IsAdd(e, v) == e.op = HTTP_SERVER_ACTIVE_REQUESTS /\ e.value = v

AttrKeys(attrs) == {kv[1] : kv \in attrs}

Completed(r) == pc[r] \in {"delivered", "released", "failed"}

\* C1: once every request has completed, with a response or with an error
\* from the next stage, the net value of http.server.active_requests is back
\* at its value before the requests began (0).
C1_GaugeBalance ==
    (\A r \in Req : Completed(r)) => GaugeNet = 0

\* C2: for every request, the attribute set of the add(+1) and that of the
\* matching add(-1) are identical and hold method and scheme only.
C2_SameAttributeSet ==
    \A r \in Req : \A i, j \in DOMAIN log[r] :
        (IsAdd(log[r][i], 1) /\ IsAdd(log[r][j], -1)) =>
            /\ log[r][i].attrs = log[r][j].attrs
            /\ AttrKeys(log[r][j].attrs) = {HTTP_REQUEST_METHOD, URL_SCHEME}

\* C3: when the next stage's future resolves to an error, then by the time the
\* error has reached the caller the request's add(-1) and a duration record
\* have been made and the request span is closed with an error status.
C3_FaultStillRecords ==
    \A r \in Req : pc[r] = "failed" =>
        /\ \E i \in DOMAIN log[r] : IsAdd(log[r][i], -1)
        /\ \E i \in DOMAIN log[r] : log[r][i].op = HTTP_SERVER_DURATION
        /\ \E e \in DOMAIN exported :
              e.req = r /\ e.kind = "request" /\ e.status = "error"

\* C4: a request that passed through record_trace has exactly one request span
\* handed to the exporter once it has ended (response released, error returned
\* or flow cancelled), and never more than one at any time.
C4_ExactlyOneRequestSpan ==
    \A r \in Req :
        /\ SpansExported(r, {"request"}) <= 1
        /\ pc[r] \in {"released", "failed", "cancelled"} =>
              SpansExported(r, {"request"}) = 1

C4_Witness ==
    /\ \E r \in Req : pc[r] = "released" /\ SpansExported(r, {"request"}) = 1
    /\ \E r \in Req : pc[r] = "failed" /\ SpansExported(r, {"request"}) = 1

\* C5: a request carrying a valid trace header with trace id T gets a request
\* span whose trace id is T.
C5_ContextContinuity ==
    \A r \in Req :
        (span[r].state # "none" /\ ExtractTraceContext(req[r].traceparent) # EmptyContext) =>
            span[r].trace_id = Unwrap(req[r].traceparent).trace_id

HeaderUsable(tp) ==
    IsSome(tp) /\ Unwrap(tp).version = "00" /\ Unwrap(tp).trace_id # 0 /\ Unwrap(tp).parent_id # 0

\* C6: a request whose trace header is absent or malformed gets a root span
\* with a generated trace id that no other request's span and no inbound
\* header carries, and is handed to the next stage.
C6_FreshRootTrace ==
    \A r \in Req :
        (pc[r] \notin {"unused", "received", "called"} /\ ~HeaderUsable(req[r].traceparent)) =>
            /\ span[r].state # "none"
            /\ span[r].parent = "none"
            /\ span[r].trace_id # 0
            /\ \A s \in Req \ {r} : span[s].state # "none" => span[s].trace_id # span[r].trace_id
            /\ \A s \in Req : IsSome(req[s].traceparent) =>
                  Unwrap(req[s].traceparent).trace_id # span[r].trace_id
            /\ \E i \in DOMAIN log[r] : log[r][i].op = "next.call"

C6_Witness ==
    \E r, s \in Req :
        /\ r # s
        /\ req[s].traceparent = Some(ValidTraceparent) /\ pc[s] = "released"
        /\ req[r].traceparent = Some(MalformedTraceparent) /\ pc[r] = "dispatched"
        /\ span[r].trace_id > span[s].trace_id

\* The value a string of digits denotes, digit by digit from the left.
RECURSIVE Pow10(_)
Pow10(n) == IF n = 0 THEN 1 ELSE 10 * Pow10(n - 1)

Denotes(h) ==
    SumOver([i \in DOMAIN h |-> DigitValue(h[i]) * Pow10(Len(h) - i)], DOMAIN h)

AllDigits(h) == h # <<>> /\ \A i \in DOMAIN h : h[i] \in Digits

\* The first request-size sample of request r.
FirstSizeSample(r) ==
    log[r][CHOOSE i \in DOMAIN log[r] :
                /\ log[r][i].op = HTTP_SERVER_REQUEST_SIZE
                /\ \A j \in 1..(i - 1) : log[r][j].op # HTTP_SERVER_REQUEST_SIZE]

\* C7: the metrics middleware records a request-size sample for every request;
\* its value is 0 when Content-Length is missing, not valid text or no
\* non-negative integer, and n when the header reads n.
C7_SizeDefaulting ==
    \A r \in Req : pc[r] \notin {"unused", "received"} =>
        LET cl == req[r].content_length
            h == Unwrap(cl)
        IN  /\ \E i \in DOMAIN log[r] : log[r][i].op = HTTP_SERVER_REQUEST_SIZE
            /\ \E x \in DOMAIN http_server_request_size :
                  x[1] = FirstSizeSample(r).value
            /\ ~IsSome(cl) => FirstSizeSample(r).value = 0
            /\ (IsSome(cl) /\ AllDigits(h)) => FirstSizeSample(r).value = Denotes(h)
            /\ (IsSome(cl) /\ h # <<>> /\ h[1] = "+" /\ AllDigits(Tail(h))) =>
                  FirstSizeSample(r).value = Denotes(Tail(h))
            /\ (IsSome(cl) /\ ~AllDigits(h) /\ ~(h # <<>> /\ h[1] = "+" /\ AllDigits(Tail(h)))) =>
                  FirstSizeSample(r).value = 0

C7_Witness ==
    /\ pc[1] = "called"
    /\ req[1].content_length = Some(<<"-", "1">>)
    /\ FirstSizeSample(1).value = 0

\* C8: after a request has completed with a response, each of the four
\* instruments has received at least one observation.
C8_AllInstrumentsObserved ==
    (\E r \in Req : pc[r] \in {"delivered", "released"}) =>
        /\ DOMAIN http_server_active_requests # {}
        /\ DOMAIN http_server_duration # {}
        /\ DOMAIN http_server_request_size # {}
        /\ DOMAIN http_server_response_size # {}

C8_Witness ==
    \E r \in Req : pc[r] = "delivered" /\ DOMAIN http_server_duration # {}

\* C9: when the caller holds the 200 response of a handler that calls foo, at
\* least two spans of the request have been closed and handed to the exporter.
C9_TwoSpansBeforeResponse ==
    \A r \in Req :
        (/\ pc[r] = "delivered"
         /\ req[r].next = "route"
         /\ CallsFoo(Handler(req[r]))
         /\ Unwrap(resp[r]).status = 200) =>
            SpansExported(r, {"request", "foo", "inner"}) >= 2

C9_Witness ==
    \E r \in Req :
        /\ pc[r] = "delivered" /\ req[r].next = "route" /\ Handler(req[r]) = "echo"
        /\ Unwrap(resp[r]).status = 200
        /\ SpansExported(r, {"foo", "inner"}) = 2

IsStartMetric(e) ==
    IsAdd(e, 1) \/ (e.op = HTTP_SERVER_REQUEST_SIZE /\ HTTP_RESPONSE_STATUS_CODE \notin AttrKeys(e.attrs))

IsEndMetric(e) ==
    IsAdd(e, -1) \/ e.op \in {HTTP_SERVER_DURATION, HTTP_SERVER_RESPONSE_SIZE}

\* C10: within a request, the span is started and attached before the
\* request-start metrics are recorded, and the request-end metrics are
\* recorded before the span's final attributes are written.
C10_SpanAroundMetrics ==
    \A r \in Req : \A i \in DOMAIN log[r] :
        /\ IsStartMetric(log[r][i]) =>
              \E j \in 1..(i - 1) : log[r][j].op = "span.attach"
        /\ log[r][i].op = "span.record" =>
              \E j \in 1..(i - 1) : IsEndMetric(log[r][j])

\* How many entries of request r's log are op.
CountOps(r, op) == Cardinality({i \in DOMAIN log[r] : log[r][i].op = op})

\* C11: the span finish step, the writing of the final attributes onto the
\* request span, runs exactly once per request on every completion path of
\* the next stage: response, error response, Err, no matching route.
C11_FinishOnEveryPath ==
    \A r \in Req :
        pc[r] \in {"trace_ok", "trace_err", "delivered", "failed", "released"} =>
            CountOps(r, "span.record") = 1

\* C12: when the middleware future is dropped while the next stage is pending,
\* the request-end metrics and the span finish still run: the gauge is
\* decremented, the final attributes are written and the span is closed.
C12_CancelStillFinishes ==
    \A r \in Req : pc[r] = "cancelled" =>
        /\ \E i \in DOMAIN log[r] : IsAdd(log[r][i], -1)
        /\ CountOps(r, "span.record") = 1
        /\ span[r].state = "closed"

\* C13: what the next stage returned comes back unchanged: its Err is the Err
\* record_trace and call return, and its response's status and body are those
\* of the response they hand back.
C13_OutcomePassedThrough ==
    \A r \in Req :
        /\ pc[r] \in {"trace_err", "failed"} =>
              /\ ~Unwrap(returned[r].record_trace).ok
              /\ Unwrap(returned[r].record_trace).err = <<"next stage error", r>>
        /\ pc[r] = "failed" =>
              /\ ~Unwrap(returned[r].call).ok
              /\ Unwrap(returned[r].call).err = <<"next stage error", r>>
        /\ pc[r] \in {"trace_ok", "delivered", "released"} =>
              /\ Unwrap(returned[r].record_trace).ok
              /\ Unwrap(returned[r].record_trace).val.response = Unwrap(resp[r])
        /\ pc[r] \in {"delivered", "released"} =>
              /\ Unwrap(returned[r].call).ok
              /\ Unwrap(returned[r].call).val.response = Unwrap(resp[r])
              /\ Unwrap(returned[r].call).val.request = r

C13_Witness ==
    \E r \in Req :
        /\ pc[r] = "failed"
        /\ req[r].next = "err"
        /\ Unwrap(returned[r].call) = Err(<<"next stage error", r>>)

\* C14: when a handler behind record_trace starts, the TraceInfo holding the
\* request's span is in the request's extensions, so the ReqData<TraceInfo>
\* extraction of hello, random and echo succeeds: foo runs and the handler
\* answers 200.
C14_AttachedBeforeDispatch ==
    \A r \in Req :
        /\ pc[r] = "dispatched" =>
              /\ IsSome(extensions[r])
              /\ Unwrap(extensions[r]).app_root_span = r
              /\ Unwrap(extensions[r]).trace_id = span[r].trace_id
        /\ (/\ req[r].next = "route"
            /\ CallsFoo(Handler(req[r]))
            /\ pc[r] \in {"in_handler", "next_ok", "trace_ok", "delivered", "released"}) =>
              /\ CountOps(r, "foo") = 1
              /\ IsSome(resp[r]) => Unwrap(resp[r]).status = 200

C14_Witness ==
    \E r \in Req :
        /\ pc[r] = "next_ok"
        /\ Handler(req[r]) = "random" /\ req[r].next = "route"
        /\ CountOps(r, "foo") = 1
        /\ Unwrap(resp[r]).status = 200

\* C15: the request body size is recorded into http.server.request.size
\* exactly once per request: one sample at request start and none when the
\* response arrives.
C15_RequestSizeOnce ==
    \A r \in Req :
        /\ CountOps(r, HTTP_SERVER_REQUEST_SIZE) <= 1
        /\ pc[r] \notin {"unused", "received"} => CountOps(r, HTTP_SERVER_REQUEST_SIZE) = 1

\* C16: a request that completes with a response gets exactly one duration
\* sample and exactly one response-size sample, recorded after the next stage
\* has returned, under method, scheme, route and status; a body of no known
\* size is recorded as 0. A request that has not completed has neither.
C16_EndSamplesOnce ==
    \A r \in Req :
        /\ pc[r] \in {"delivered", "released"} =>
              /\ CountOps(r, HTTP_SERVER_DURATION) = 1
              /\ CountOps(r, HTTP_SERVER_RESPONSE_SIZE) = 1
              /\ \A i \in DOMAIN log[r] :
                    log[r][i].op \in {HTTP_SERVER_DURATION, HTTP_SERVER_RESPONSE_SIZE} =>
                        /\ \E j \in 1..(i - 1) : log[r][j].op = "next.call"
                        /\ AttrKeys(log[r][i].attrs) =
                              {HTTP_REQUEST_METHOD, URL_SCHEME, HTTP_ROUTE, HTTP_RESPONSE_STATUS_CODE}
                        /\ <<HTTP_RESPONSE_STATUS_CODE, Unwrap(resp[r]).status>> \in log[r][i].attrs
                        /\ <<HTTP_REQUEST_METHOD, req[r].method>> \in log[r][i].attrs
                        /\ <<log[r][i].value, log[r][i].attrs>> \in
                              DOMAIN (IF log[r][i].op = HTTP_SERVER_DURATION
                                      THEN http_server_duration
                                      ELSE http_server_response_size)
              /\ \A i \in DOMAIN log[r] :
                    log[r][i].op = HTTP_SERVER_RESPONSE_SIZE =>
                        log[r][i].value =
                            IF Unwrap(resp[r]).body.kind = "Sized"
                            THEN Unwrap(resp[r]).body.size
                            ELSE 0
        /\ pc[r] \notin {"delivered", "released"} =>
              /\ CountOps(r, HTTP_SERVER_DURATION) = 0
              /\ CountOps(r, HTTP_SERVER_RESPONSE_SIZE) = 0

C16_Witness ==
    \E r \in Req :
        /\ pc[r] = "delivered"
        /\ Unwrap(resp[r]).body.kind = "None"
        /\ Unwrap(resp[r]).status = 404
        /\ \E i \in DOMAIN log[r] :
              log[r][i].op = HTTP_SERVER_RESPONSE_SIZE /\ log[r][i].value = 0

\* C17: when record_trace returns the response, no handle of the request span
\* is left alive, neither the local one nor the TraceInfo clone in the
\* request's extensions, so the span is closed and handed to the exporter
\* before the caller has the response.
C17_ClosedBeforeReturn ==
    \A r \in Req : pc[r] \in {"trace_ok", "delivered"} =>
        /\ span[r].handles = {}
        /\ span[r].state = "closed"
        /\ SpansExported(r, {"request"}) = 1

\* C18: once the span is finished, its status is error when the response
\* status is a server error (5xx), and is not error otherwise.
C18_ErrorStatusOnServerError ==
    \A r \in Req : pc[r] \in {"trace_ok", "delivered", "released"} =>
        (span[r].status = "error" <=> Unwrap(resp[r]).status \in 500..599)

\* C19: once record_trace has finished a request that produced a response,
\* the span's response-status attribute is recorded, and its error-type
\* attribute is recorded when the status is not 2xx and left empty when it is;
\* the exported span carries these fields.
C19_ErrorTypeOnNonSuccess ==
    \A r \in Req : pc[r] \in {"trace_ok", "delivered", "released"} =>
        LET status == Unwrap(resp[r]).status
            f == span[r].fields
        IN  /\ f[HTTP_RESPONSE_STATUS_CODE] # Empty
            /\ status \in 200..299 => f[ERROR_TYPE] = Empty
            /\ status \notin 200..299 =>
                  f[ERROR_TYPE] # Empty /\ f[ERROR_TYPE] = f[HTTP_RESPONSE_STATUS_CODE]
            /\ pc[r] = "released" =>
                  \E e \in DOMAIN exported : e.req = r /\ e.kind = "request" /\ e.fields = f

C19_Witness ==
    \E r \in Req :
        /\ pc[r] = "released"
        /\ Unwrap(resp[r]).status = 404
        /\ span[r].fields[ERROR_TYPE] = "404 Not Found"
        /\ span[r].fields[HTTP_RESPONSE_STATUS_CODE] = "404 Not Found"

\* C20: with several requests in flight and interleaved at the next-stage
\* suspension point, the TraceInfo in request r's extensions is the one
\* record_trace made for r (a handle of r's span, with r's trace id), the spans
\* a handler makes for r hang under r's span, and a span has fields written
\* only once its own request's record_trace has come back from the next stage
\* with a response: no request reads or writes another request's span.
C20_RequestScopeIsolation ==
    /\ \A r \in Req : IsSome(extensions[r]) =>
          /\ Unwrap(extensions[r]).app_root_span = r
          /\ Unwrap(extensions[r]).trace_id = span[r].trace_id
          /\ "extensions" \in span[r].handles
    /\ \A e \in DOMAIN exported : e.kind \in {"foo", "inner"} =>
          e.trace_id = span[e.req].trace_id
    /\ \A r \in Req : (\E k \in SpanFields : span[r].fields[k] # Empty) =>
          /\ pc[r] \in {"trace_ok", "delivered", "released"}
          /\ span[r].fields = FinalFields([k \in SpanFields |-> Empty], req[r], Unwrap(resp[r]))

C20_Witness ==
    \E r, q \in Req :
        /\ r # q
        /\ pc[r] = "trace_ok"
        /\ span[r].fields[HTTP_RESPONSE_STATUS_CODE] # Empty
        /\ pc[q] = "in_handler"
        /\ SpansExported(q, {"foo"}) = 1
        /\ span[q].trace_id # span[r].trace_id
        /\ Unwrap(extensions[q]).app_root_span = q
        /\ \A k \in SpanFields : span[q].fields[k] = Empty

\* C21: the trace id held in TraceInfo.trace_id, which the handler reads, is
\* the trace id of the request's span and of the request span the exporter
\* receives for that request, and the spans made under it by foo carry that
\* same trace id.
C21_TraceIdConsistent ==
    /\ \A r \in Req : IsSome(extensions[r]) =>
          /\ Unwrap(extensions[r]).trace_id # 0
          /\ Unwrap(extensions[r]).trace_id = span[r].trace_id
          /\ \A e \in DOMAIN exported : e.req = r =>
                e.trace_id = Unwrap(extensions[r]).trace_id
    /\ \A e \in DOMAIN exported : e.trace_id = span[e.req].trace_id
    /\ \A e, f \in DOMAIN exported : e.req = f.req => e.trace_id = f.trace_id

C21_Witness ==
    \E r, q \in Req :
        /\ r # q
        /\ pc[r] = "released"
        /\ pc[q] = "in_handler"
        /\ \E e, f \in DOMAIN exported :
              /\ e.req = r /\ e.kind = "request"
              /\ f.req = r /\ f.kind = "foo"
              /\ e.trace_id = f.trace_id
              /\ e.trace_id # Unwrap(extensions[q]).trace_id
        /\ \E g \in DOMAIN exported :
              g.req = q /\ g.kind = "foo" /\ g.trace_id = Unwrap(extensions[q]).trace_id

\* How many add(v) calls on http.server.active_requests request r has made.
Adds(r, v) == Cardinality({i \in DOMAIN log[r] : IsAdd(log[r][i], v)})

RECURSIVE AddsOver(_, _)
AddsOver(S, v) ==
    IF S = {} THEN 0
    ELSE LET r == CHOOSE x \in S : TRUE IN Adds(r, v) + AddsOver(S \ {r}, v)

\* C22: in every reachable state, whatever the interleaving of the requests,
\* http.server.active_requests summed over its attribute sets is not negative
\* and equals the number of requests that have made their add(+1) minus the
\* number that have made their add(-1); a request makes its add(-1) at most
\* once and only after its own add(+1).
C22_GaugeCountsInFlight ==
    /\ GaugeNet >= 0
    /\ GaugeNet = AddsOver(Req, 1) - AddsOver(Req, -1)
    /\ \A r \in Req :
          /\ Adds(r, 1) <= 1
          /\ Adds(r, -1) <= 1
          /\ \A i \in DOMAIN log[r] : IsAdd(log[r][i], -1) =>
                \E j \in 1..(i - 1) : IsAdd(log[r][j], 1)

C22_Witness ==
    \E r, q \in Req :
        /\ r # q
        /\ Adds(r, 1) = 1 /\ Adds(r, -1) = 1
        /\ Adds(q, 1) = 1 /\ Adds(q, -1) = 0
        /\ GaugeNet = 1
        /\ \E k \in DOMAIN http_server_active_requests : http_server_active_requests[k] = 2
        /\ \E k \in DOMAIN http_server_active_requests : http_server_active_requests[k] < 0

====
